---- MODULE Spec2Model ----
(***************************************************************************)
(* Coastline ring reconstruction of helsinki-hex-map:                      *)
(*   src/src/scripts/process-coastline.ts  (mergeSegments, coordKey,       *)
(*   calculateRingArea, processCoastlineData) and the output merge script  *)
(*   src/unnamed/part_002 (combinedFeatures).                              *)
(*                                                                         *)
(* Numbers.  A coordinate component is an integer count of ticks of        *)
(* 10^-7 degree (Unit ticks make 1.0).  toFixed(6) rounds to 10^-6, that   *)
(* is to KeyStep = 10 ticks, so distinct coordinates can share a key.      *)
(* Products of coordinates exceed 32 bits, so sums of products are kept    *)
(* exactly as numbers <<c2, c1, c0, h>> = c2*Radix^2 + c1*Radix            *)
(* + c0 + h/2 with 0 <= c1, c0 < Radix and h in {0, 1}; the half makes the *)
(* division by two of the shoelace formula exact.  Areas are in square     *)
(* ticks.  Floating-point rounding error is not modelled.                  *)
(*                                                                         *)
(* Sequences are 1-based: position p here is index p-1 in the source.      *)
(***************************************************************************)
EXTENDS Integers, Sequences, FiniteSets, TLC

Unit == 10000000
KeyStep == 10
Radix == 10000

---------------------------------------------------------------------------
(* Exact arithmetic: << c2, c1, c0, h >> is c2*Radix^2 + c1*Radix + c0 +  *)
(* h/2 with 0 <= c1, c0 < Radix and h in {0, 1}.                            *)

BigNorm(c2, c1, c0, h) ==
  LET d0 == c0 + (h \div 2)
      d1 == c1 + (d0 \div Radix)
  IN  << c2 + (d1 \div Radix), d1 % Radix, d0 % Radix, h % 2 >>

BigZero == << 0, 0, 0, 0 >>

BigMul(a, b) ==
  LET a1 == a \div Radix
      a0 == a % Radix
      b1 == b \div Radix
      b0 == b % Radix
  IN  BigNorm(a1 * b1, a1 * b0 + a0 * b1, a0 * b0, 0)

BigAdd(p, q) == BigNorm(p[1] + q[1], p[2] + q[2], p[3] + q[3], p[4] + q[4])

BigSub(p, q) == BigNorm(p[1] - q[1], p[2] - q[2], p[3] - q[3], p[4] - q[4])

BigNeg(p) == BigNorm(0 - p[1], 0 - p[2], 0 - p[3], 0 - p[4])

BigIsNeg(p) == p[1] < 0

BigAbs(p) == IF BigIsNeg(p) THEN BigNeg(p) ELSE p

(* p / 2 for a whole p *)
BigHalf(p) ==
  LET s1 == p[2] + (p[1] % 2) * Radix
      s0 == p[3] + (s1 % 2) * Radix
  IN  << p[1] \div 2, s1 \div 2, s0 \div 2, s0 % 2 >>

BigLess(p, q) ==
  \/ p[1] < q[1]
  \/ p[1] = q[1] /\ p[2] < q[2]
  \/ p[1] = q[1] /\ p[2] = q[2] /\ p[3] < q[3]
  \/ p[1] = q[1] /\ p[2] = q[2] /\ p[3] = q[3] /\ p[4] < q[4]

---------------------------------------------------------------------------
(* coordKey: `${coord[0].toFixed(6)},${coord[1].toFixed(6)}`.  toFixed      *)
(* writes the sign of a negative number and rounds the magnitude to the    *)
(* nearest step, the larger on a tie.                                      *)

ToFixed6(x) ==
  IF x < 0 THEN << "-", ((0 - x) + (KeyStep \div 2)) \div KeyStep >>
           ELSE << "", (x + (KeyStep \div 2)) \div KeyStep >>

coordKey(coord) == << ToFixed6(coord[1]), ToFixed6(coord[2]) >>

---------------------------------------------------------------------------
(* calculateRingArea: the shoelace loop, then Math.abs(area / 2), in        *)
(* square ticks.                                                            *)

(* the loop as a function of (i, area): its arguments are values *)
AreaLoop(ring) ==
  LET loop[i \in Nat, area \in Seq(Int)] ==
        IF i < Len(ring)
        THEN loop[i + 1,
                  BigSub(BigAdd(area, BigMul(ring[i][1], ring[i + 1][2])),
                         BigMul(ring[i + 1][1], ring[i][2]))]
        ELSE area
  IN  loop[1, BigZero]

calculateRingAreaSigned(ring) == BigHalf(AreaLoop(ring))

calculateRingArea(ring) == BigAbs(BigHalf(AreaLoop(ring)))

---------------------------------------------------------------------------
(* Inputs.  The segment collection handed to mergeSegments is one of       *)
(*   - up to MaxSegs segments drawn, with repetition, from SegPool;         *)
(*   - "bulk": n <= MaxBulk closed rectangles whose areas follow a pattern; *)
(*   - "chain": MaxChain two-point segments that stitch into one open      *)
(*     chain, more than the per-ring iteration cap can consume.            *)

MaxSegs == 3
MaxBulk == 100
MaxChain == 10001

O  == << 0, 0 >>
O1 == << 1, 0 >>
E  == << Unit, 0 >>
N  == << Unit, Unit >>
W  == << 0, Unit >>
Side == Unit \div 100

Rect(x, w, h) == << <<x, 0>>, <<x + w, 0>>, <<x + w, h>>, <<x, h>>, <<x, 0>> >>

L10 == [ j \in 1..10 |-> << 100 * j, 500 >> ]

SegPool ==
  << << O, E, N >>,
     << N, W, O >>,
     << O, W, N >>,
     << O >>,
     << O, E, O >>,
     << O, E, N, O1 >>,
     L10,
     << << 1000, 500 >>, << 1100, 500 >> >>,
     << N, W, O, N >>,
     << >>,
     << N, W, O1 >> >>

Patterns == { "asc", "desc", "tie", "mixed" }

BulkWidth(pat, n, j) ==
  CASE pat = "asc"   -> Side * (j + 1)
    [] pat = "desc"  -> Side * (n - j + 2)
    [] pat = "tie"   -> Side * (2 + (j \div 2))
    [] pat = "mixed" -> (Side \div 2) * (1 + (j % 4))

RECURSIVE Seqs(_, _)
Seqs(S, n) ==
  IF n = 0 THEN { << >> }
  ELSE LET shorter == Seqs(S, n - 1)
       IN  shorter \cup { Append(q, x) : q \in { r \in shorter : Len(r) = n - 1 }, x \in S }

PoolInputs(len) ==
  { [kind |-> "pool", ids |-> q, n |-> Len(q), pat |-> "none"] :
      q \in Seqs(DOMAIN SegPool, len) }

Inputs ==
  PoolInputs(MaxSegs)
  \cup
  { [kind |-> "bulk", ids |-> << >>, n |-> m, pat |-> p] :
      m \in 0..MaxBulk, p \in Patterns }

CapInputs ==
  PoolInputs(2)
  \cup
  { [kind |-> "chain", ids |-> << >>, n |-> MaxChain, pat |-> "none"] }

ChainStart == << << 0, 0 >>, << 100, 0 >> >>
ChainLink  == << << 100, 0 >>, << 200, 0 >> >>

---------------------------------------------------------------------------
VARIABLES input, pc, startIndex, endIndex, used, rings, k, i, ring,
          iterations, chain, ringChains, significantRings, sortedByArea,
          mainLandFeatures, landFile, combinedFeatures, console

(* The state of the script fetch-travel-times.ts: its command line and    *)
(* the files it reads, the locals of main, and the position of main.        *)
(* fetchStartIndex and fetchI are main's startIndex and i; fetched lists    *)
(* the hexes fetchTravelTime was called for.                                *)
VARIABLES argv, allHexIds, outputFile, progressFile, partConfig, hexIds,
          results, fetchStartIndex, fetchI, travelTime, fetched,
          successCount, skippedCount, errorCount, fetchPc

fetchVars == << argv, allHexIds, outputFile, progressFile, partConfig, hexIds,
                results, fetchStartIndex, fetchI, travelTime, fetched,
                successCount, skippedCount, errorCount, fetchPc >>

(* The state of the component TravelTimeFilter: its value prop (the state  *)
(* of Map), its dragging state, the closure its effect has registered on   *)
(* window, the val of the last run of updateFromEvent and the argument of   *)
(* the last call of onChange.                                               *)
VARIABLES value, dragging, listener, val, reported

filterVars == << value, dragging, listener, val, reported >>

vars == << input, pc, startIndex, endIndex, used, rings, k, i, ring,
           iterations, chain, ringChains, significantRings, sortedByArea,
           mainLandFeatures, landFile, combinedFeatures, console,
           fetchVars, filterVars >>

mergeVars == << startIndex, endIndex, used, rings, k, i, ring, iterations,
                chain, ringChains >>

tailVars == << significantRings, sortedByArea, mainLandFeatures, landFile,
               combinedFeatures, console >>

(* segments: the array handed to mergeSegments; it is never assigned.      *)
SegmentsLength == input.n

segments(p) ==
  IF input.kind = "pool" THEN SegPool[input.ids[p]]
  ELSE IF input.kind = "chain" THEN (IF p = 1 THEN ChainStart ELSE ChainLink)
  ELSE Rect(1000 * p, BulkWidth(input.pat, input.n, p), Side)

maxIterations == 10000
ForceCloseMin == 10
MinClosedLen == 3
TopK == 50
(* 0.0001 square degree = 10^10 square ticks = 100 * Radix^2 *)
MinArea == << 100, 0, 0, 0 >>

(* the output file before it is written *)
NoFile == [ type |-> "absent", features |-> << >> ]

(* One line of console output: the console method called, the fixed text   *)
(* of the template and the numbers interpolated into it.                   *)
ConsoleLog(msg, args) == [ level |-> "log", msg |-> msg, args |-> args ]

(* lines 36-52, every element being a way with a geometry *)
ReadingLines ==
  << ConsoleLog("Reading coastline data...", << >>),
     ConsoleLog("Found coastline ways", << SegmentsLength >>),
     ConsoleLog("Extracted segments", << SegmentsLength >>) >>

(* area.toFixed(6): the area in units of 10^-6 square degree, that is of   *)
(* Radix^2 square ticks, rounded to the nearest, the larger on a tie.      *)
AreaToFixed6(a) == a[1] + (IF a[2] >= Radix \div 2 THEN 1 ELSE 0)

InitState ==
  /\ pc = "index"
  /\ startIndex = << >>
  /\ endIndex = << >>
  /\ used = {}
  /\ rings = << >>
  /\ k = 1
  /\ i = 1
  /\ ring = << >>
  /\ iterations = 0
  /\ chain = << >>
  /\ ringChains = << >>
  /\ significantRings = << >>
  /\ sortedByArea = << >>
  /\ mainLandFeatures = << >>
  /\ landFile = NoFile
  /\ combinedFeatures = << >>
  /\ console = ReadingLines

(* null, and a value that is not null *)
Null == << >>

Some(x) == << x >>

(* main of fetch-travel-times.ts before its first statement *)
FetchStart(run) ==
  /\ argv = run.argv
  /\ allHexIds = run.allHexIds
  /\ outputFile = run.outputFile
  /\ progressFile = run.progressFile
  /\ partConfig = Null
  /\ hexIds = << >>
  /\ results = << >>
  /\ fetchStartIndex = 0
  /\ fetchI = 0
  /\ travelTime = Null
  /\ fetched = << >>
  /\ successCount = 0
  /\ skippedCount = 0
  /\ errorCount = 0
  /\ fetchPc = "main"

NoRun == [ argv |-> Null, allHexIds |-> << >>, outputFile |-> Null,
           progressFile |-> Null ]

(* TravelTimeFilter as Map mounts it, lines 56-59 and Map.tsx line 72 *)
FilterMounted(initial) ==
  /\ value = initial
  /\ dragging = "null"
  /\ listener = Null
  /\ val = 0
  /\ reported = Null

Init == input \in Inputs /\ InitState /\ FetchStart(NoRun) /\ FilterMounted(Null)

InitCap == input \in CapInputs /\ InitState /\ FetchStart(NoRun) /\ FilterMounted(Null)

---------------------------------------------------------------------------
(* mergeSegments, lines 117-128: one pass of the forEach per step.         *)

MapGet(index, key) == IF key \in DOMAIN index THEN index[key] ELSE << >>

MapPush(index, key, p) ==
  [ q \in (DOMAIN index) \cup {key} |-> IF q = key THEN Append(MapGet(index, key), p)
                                        ELSE index[q] ]

TooShortOffByOne(seg) == Len(seg) < 1

TooShort(seg) == Len(seg) < 2

IndexSegment ==
  /\ pc = "index"
  /\ k <= SegmentsLength
  /\ LET seg == segments(k)
     IN  IF TooShort(seg)
         THEN UNCHANGED << startIndex, endIndex >>
         ELSE /\ startIndex' = MapPush(startIndex, coordKey(seg[1]), k)
              /\ endIndex' = MapPush(endIndex, coordKey(seg[Len(seg)]), k)
  /\ k' = k + 1
  /\ UNCHANGED << input, fetchVars, filterVars, pc, used, rings, i, ring, iterations, chain,
                  ringChains, tailVars >>

IndexDone ==
  /\ pc = "index"
  /\ k > SegmentsLength
  /\ pc' = "seed"
  /\ UNCHANGED << input, fetchVars, filterVars, mergeVars, tailVars >>

(* lines 131-146: the for loop over seeds.                                  *)

SkipSegment ==
  /\ pc = "seed"
  /\ i <= SegmentsLength
  /\ \/ i \in used
     \/ TooShort(segments(i))
  /\ i' = i + 1
  /\ UNCHANGED << input, fetchVars, filterVars, pc, startIndex, endIndex, used, rings, k, ring,
                  iterations, chain, ringChains, tailVars >>

IsSeedAgain(p) == ~ TooShort(segments(p))

IsSeed(p) == p \notin used /\ ~ TooShort(segments(p))

SelfClosedExactly(seg) == seg[1] = seg[Len(seg)]

SelfClosed(seg) == coordKey(seg[1]) = coordKey(seg[Len(seg)])

AcceptClosedUnmarked ==
  /\ pc = "seed"
  /\ i <= SegmentsLength
  /\ IsSeed(i)
  /\ SelfClosed(segments(i))
  /\ rings' = Append(rings, segments(i))
  /\ ringChains' = Append(ringChains, << i >>)
  /\ i' = i + 1
  /\ UNCHANGED << input, fetchVars, filterVars, pc, startIndex, endIndex, used, k, ring, iterations,
                  chain, tailVars >>

AcceptClosed ==
  /\ pc = "seed"
  /\ i <= SegmentsLength
  /\ IsSeed(i)
  /\ SelfClosed(segments(i))
  /\ rings' = Append(rings, segments(i))
  /\ ringChains' = Append(ringChains, << i >>)
  /\ used' = used \cup {i}
  /\ i' = i + 1
  /\ UNCHANGED << input, fetchVars, filterVars, pc, startIndex, endIndex, k, ring, iterations,
                  chain, tailVars >>

StartRing ==
  /\ pc = "seed"
  /\ i <= SegmentsLength
  /\ IsSeed(i)
  /\ ~ SelfClosed(segments(i))
  /\ ring' = segments(i)
  /\ chain' = << i >>
  /\ used' = used \cup {i}
  /\ iterations' = 0
  /\ pc' = "extend"
  /\ UNCHANGED << input, fetchVars, filterVars, startIndex, endIndex, rings, k, i, ringChains,
                  tailVars >>

(* lines 151-198: one pass of the while loop per step.                      *)

endKey == coordKey(ring[Len(ring)])

UnusedUnchecked(cands) == cands

Unused(cands) == SelectSeq(cands, LAMBDA c : c \notin used)

RingClosedWhenStuck ==
  /\ coordKey(ring[1]) = endKey
  /\ Len(ring) > MinClosedLen
  /\ Unused(MapGet(startIndex, endKey)) = << >>
  /\ Unused(MapGet(endIndex, endKey)) = << >>

RingClosed == coordKey(ring[1]) = endKey /\ Len(ring) > MinClosedLen

LastUnused(cands) == Unused(cands)[Len(Unused(cands))]

FirstUnused(cands) == Unused(cands)[1]

candidates == MapGet(startIndex, endKey)

reverseCandidates == MapGet(endIndex, endKey)

SliceOneKeepFirst(seg) == seg

SliceOne(seg) == SubSeq(seg, 2, Len(seg))

ReverseForgotten(seg) == seg

Reverse(seg) == [ j \in 1..Len(seg) |-> seg[Len(seg) + 1 - j] ]

LoopRuns == pc = "extend" /\ iterations < maxIterations

(* break: the ring variable goes out of scope *)
Break ==
  /\ ring' = << >>
  /\ chain' = << >>
  /\ i' = i + 1
  /\ pc' = "seed"

LoopExit ==
  /\ pc = "extend"
  /\ ~ (iterations < maxIterations)
  /\ iterations' = iterations + 1
  /\ Break
  /\ UNCHANGED << input, fetchVars, filterVars, startIndex, endIndex, used, rings, k, ringChains,
                  tailVars >>

CloseRing ==
  /\ LoopRuns
  /\ RingClosed
  /\ iterations' = iterations + 1
  /\ rings' = Append(rings, ring)
  /\ ringChains' = Append(ringChains, chain)
  /\ Break
  /\ UNCHANGED << input, fetchVars, filterVars, startIndex, endIndex, used, k, tailVars >>

ExtendForward ==
  /\ LoopRuns
  /\ ~ RingClosed
  /\ Unused(candidates) # << >>
  /\ LET candIdx == FirstUnused(candidates)
     IN  /\ ring' = ring \o SliceOne(segments(candIdx))
         /\ chain' = Append(chain, candIdx)
         /\ used' = used \cup {candIdx}
  /\ iterations' = iterations + 1
  /\ UNCHANGED << input, fetchVars, filterVars, pc, startIndex, endIndex, rings, k, i, ringChains,
                  tailVars >>

ExtendReverseFirst ==
  /\ LoopRuns
  /\ ~ RingClosed
  /\ Unused(reverseCandidates) # << >>
  /\ LET candIdx == FirstUnused(reverseCandidates)
     IN  /\ ring' = ring \o SliceOne(Reverse(segments(candIdx)))
         /\ chain' = Append(chain, candIdx)
         /\ used' = used \cup {candIdx}
  /\ iterations' = iterations + 1
  /\ UNCHANGED << input, fetchVars, filterVars, pc, startIndex, endIndex, rings, k, i, ringChains,
                  tailVars >>

ExtendReverse ==
  /\ LoopRuns
  /\ ~ RingClosed
  /\ Unused(candidates) = << >>
  /\ Unused(reverseCandidates) # << >>
  /\ LET candIdx == FirstUnused(reverseCandidates)
     IN  /\ ring' = ring \o SliceOne(Reverse(segments(candIdx)))
         /\ chain' = Append(chain, candIdx)
         /\ used' = used \cup {candIdx}
  /\ iterations' = iterations + 1
  /\ UNCHANGED << input, fetchVars, filterVars, pc, startIndex, endIndex, rings, k, i, ringChains,
                  tailVars >>

NoContinuationAlwaysEmits ==
  /\ LoopRuns
  /\ ~ RingClosed
  /\ Unused(candidates) = << >>
  /\ Unused(reverseCandidates) = << >>
  /\ iterations' = iterations + 1
  /\ rings' = Append(rings, Append(ring, ring[1]))
  /\ ringChains' = Append(ringChains, chain)
  /\ Break
  /\ UNCHANGED << input, fetchVars, filterVars, startIndex, endIndex, used, k, tailVars >>

NoContinuation ==
  /\ LoopRuns
  /\ ~ RingClosed
  /\ Unused(candidates) = << >>
  /\ Unused(reverseCandidates) = << >>
  /\ iterations' = iterations + 1
  /\ IF Len(ring) > ForceCloseMin
     THEN /\ rings' = Append(rings, Append(ring, ring[1]))
          /\ ringChains' = Append(ringChains, chain)
     ELSE UNCHANGED << rings, ringChains >>
  /\ Break
  /\ UNCHANGED << input, fetchVars, filterVars, startIndex, endIndex, used, k, tailVars >>

MergeReturn ==
  /\ pc = "seed"
  /\ i > SegmentsLength
  /\ pc' = "filter"
  /\ UNCHANGED << input, fetchVars, filterVars, mergeVars, tailVars >>

---------------------------------------------------------------------------
(* The same loops taken to their end in one step, for inputs whose run has *)
(* more passes than can be listed one state at a time.                     *)

(* lines 117-128: one pass of the forEach on st = [k, startIndex, endIndex] *)
ForEachBody(st) ==
  LET seg == segments(st.k)
  IN  IF st.k > SegmentsLength THEN st
      ELSE IF TooShort(seg) THEN [ st EXCEPT !.k = @ + 1 ]
      ELSE [ k |-> st.k + 1,
             startIndex |-> MapPush(st.startIndex, coordKey(seg[1]), st.k),
             endIndex |-> MapPush(st.endIndex, coordKey(seg[Len(seg)]), st.k) ]

(* lines 131-135: every consecutive continue of the for loop *)
SkipAll ==
  /\ pc = "seed"
  /\ i <= SegmentsLength
  /\ ~ IsSeed(i)
  /\ LET stops == { p \in (i + 1)..(SegmentsLength + 1) :
                      p > SegmentsLength \/ IsSeed(p) }
     IN  i' = CHOOSE p \in stops : \A q \in stops : p <= q
  /\ UNCHANGED << input, fetchVars, filterVars, pc, startIndex, endIndex, used, rings, k, ring,
                  iterations, chain, ringChains, tailVars >>

(* the variables the while loop assigns *)
LoopState ==
  [ pc |-> pc, i |-> i, ring |-> ring, chain |-> chain, used |-> used,
    rings |-> rings, ringChains |-> ringChains, iterations |-> iterations ]

CountedForgotten(st) == st.iterations

(* line 151: iterations++ *)
Counted(st) == st.iterations + 1

(* lines 151-198: one pass of the while loop on st, a LoopState *)
WhileBody(st) ==
  LET last == coordKey(st.ring[Len(st.ring)])
      closed == coordKey(st.ring[1]) = last /\ Len(st.ring) > MinClosedLen
      free(cands) == SelectSeq(cands, LAMBDA c : c \notin st.used)
      forward == free(MapGet(startIndex, last))
      backward == free(MapGet(endIndex, last))
      break(rs, cs) ==
        [ pc |-> "seed", i |-> st.i + 1, ring |-> << >>, chain |-> << >>,
          used |-> st.used, rings |-> rs, ringChains |-> cs,
          iterations |-> Counted(st) ]
      push(candIdx, candSeg) ==
        [ st EXCEPT !.ring = @ \o SliceOne(candSeg),
                    !.chain = Append(@, candIdx),
                    !.used = @ \cup { candIdx },
                    !.iterations = Counted(st) ]
  IN  IF st.pc # "extend" \/ ~ (st.iterations < maxIterations) THEN st
      ELSE IF closed
        THEN break(Append(st.rings, st.ring), Append(st.ringChains, st.chain))
      ELSE IF forward # << >>
        THEN push(forward[1], segments(forward[1]))
      ELSE IF backward # << >>
        THEN push(backward[1], Reverse(segments(backward[1])))
      ELSE IF Len(st.ring) > ForceCloseMin
        THEN break(Append(st.rings, Append(st.ring, st.ring[1])),
                   Append(st.ringChains, st.chain))
      ELSE break(st.rings, st.ringChains)

(* Repeat applies the body of a loop n times by halving; a body leaves a   *)
(* finished loop as it is.  The test half = half has the first half        *)
(* computed before the second starts.                                      *)
RECURSIVE Repeat(_, _, _)
Repeat(loop, n, st) ==
  IF n = 0 THEN st
  ELSE IF n = 1
    THEN (IF loop = "forEach" THEN ForEachBody(st) ELSE WhileBody(st))
  ELSE LET half == Repeat(loop, n \div 2, st)
       IN  IF half = half THEN Repeat(loop, n - (n \div 2), half) ELSE st

IndexAll ==
  /\ pc = "index"
  /\ k = 1
  /\ LET st == Repeat("forEach", SegmentsLength,
                      [ k |-> k, startIndex |-> startIndex, endIndex |-> endIndex ])
     IN  /\ k' = st.k
         /\ startIndex' = st.startIndex
         /\ endIndex' = st.endIndex
  /\ pc' = "seed"
  /\ UNCHANGED << input, fetchVars, filterVars, used, rings, i, ring, iterations, chain, ringChains,
                  tailVars >>

(* every pass the loop test admits: up to the break, or to the cap *)
ExtendAll ==
  /\ pc = "extend"
  /\ iterations = 0
  /\ LET st == Repeat("while", maxIterations, LoopState)
     IN  /\ pc' = st.pc
         /\ i' = st.i
         /\ ring' = st.ring
         /\ chain' = st.chain
         /\ used' = st.used
         /\ rings' = st.rings
         /\ ringChains' = st.ringChains
         /\ iterations' = st.iterations
  /\ UNCHANGED << input, fetchVars, filterVars, startIndex, endIndex, k, tailVars >>

---------------------------------------------------------------------------
(* processCoastlineData, lines 58-99.                                       *)

IsSignificantAboveZero(r) == BigLess(BigZero, calculateRingArea(r))

IsSignificantAtOrAbove(r) == ~ BigLess(calculateRingArea(r), MinArea)

IsSignificant(r) == BigLess(MinArea, calculateRingArea(r))

FilterRings ==
  /\ pc = "filter"
  /\ significantRings' = SelectSeq(rings, IsSignificant)
  /\ console' = console \o
        << ConsoleLog("Merged into rings", << Len(rings) >>),
           ConsoleLog("significant rings after filtering",
                      << Len(significantRings') >>) >>
  /\ pc' = "sort"
  /\ UNCHANGED << input, fetchVars, filterVars, mergeVars, sortedByArea, mainLandFeatures, landFile,
                  combinedFeatures >>

compareFnAscending(a, b) ==
  LET areaA == calculateRingArea(a)
      areaB == calculateRingArea(b)
  IN  IF BigLess(areaA, areaB) THEN -1
      ELSE IF BigLess(areaB, areaA) THEN 1
      ELSE 0

(* the comparator (a, b) => calculateRingArea(b) - calculateRingArea(a):   *)
(* its sign.                                                               *)
compareFn(a, b) ==
  LET areaA == calculateRingArea(a)
      areaB == calculateRingArea(b)
  IN  IF BigLess(areaB, areaA) THEN -1
      ELSE IF BigLess(areaA, areaB) THEN 1
      ELSE 0

(* Array.prototype.sort is stable: an element goes behind every element    *)
(* the comparator does not order after it.  The loop is a function of      *)
(* (j, sorted): its arguments are values.                                   *)
InsertSorted(sorted, x) ==
  LET after == { j \in 1..Len(sorted) : compareFn(sorted[j], x) > 0 }
      at == IF after = {} THEN Len(sorted) + 1
            ELSE CHOOSE j \in after : \A m \in after : j <= m
  IN  SubSeq(sorted, 1, at - 1) \o << x >> \o SubSeq(sorted, at, Len(sorted))

Sort(arr) ==
  LET loop[j \in Nat, sorted \in Seq(Seq(Seq(Int)))] ==
        IF j > Len(arr) THEN sorted
        ELSE loop[j + 1, InsertSorted(sorted, arr[j])]
  IN  loop[1, << >>]

Min(a, b) == IF a < b THEN a ELSE b

Slice(arr, from, to) == SubSeq(arr, from + 1, Min(to, Len(arr)))

SortRings ==
  /\ pc = "sort"
  /\ sortedByArea' = Sort(significantRings)
  /\ mainLandFeatures' = Slice(sortedByArea', 0, TopK)
  /\ pc' = "write"
  /\ UNCHANGED << input, fetchVars, filterVars, mergeVars, significantRings, landFile,
                  combinedFeatures, console >>

LandFeatureReclosed(r, id) ==
  [ type |-> "Feature",
    properties |-> [ id |-> id, area |-> calculateRingArea(r) ],
    geometry |-> [ type |-> "Polygon",
                   coordinates |->
                     << IF r[1] = r[Len(r)] THEN r
                        ELSE SubSeq(r, 1, Len(r) - 1) \o << r[1] >> >> ] ]

LandFeature(r, id) ==
  [ type |-> "Feature",
    properties |-> [ id |-> id, area |-> calculateRingArea(r) ],
    geometry |-> [ type |-> "Polygon", coordinates |-> << r >> ] ]

StatCount == 10

(* lines 104-106 *)
StatLines(top) ==
  [ j \in 1..Len(top) |->
      ConsoleLog("Area:", << j, AreaToFixed6(calculateRingArea(top[j])) >>) ]

WriteLand ==
  /\ pc = "write"
  /\ landFile' = [ type |-> "FeatureCollection",
                   features |-> [ j \in 1..Len(mainLandFeatures) |->
                                    LandFeature(mainLandFeatures[j], j - 1) ] ]
  /\ console' = console \o
        << ConsoleLog("Wrote land polygons to", << >>),
           ConsoleLog("Top 10 land masses by area:", << >>) >> \o
        StatLines(Slice(mainLandFeatures, 0, StatCount))
  /\ pc' = "combine"
  /\ UNCHANGED << input, fetchVars, filterVars, mergeVars, significantRings, sortedByArea,
                  mainLandFeatures, combinedFeatures >>

---------------------------------------------------------------------------
(* The output merge script (src/unnamed/part_002).                          *)

MAINLAND_POLYGON ==
  << << 247828000, 601000000 >>, << 247828000, 603000000 >>,
     << 252600000, 603000000 >>, << 252600000, 602000000 >>,
     << 252200000, 602000000 >>, << 252000000, 601950000 >>,
     << 251700000, 601900000 >>, << 251400000, 601850000 >>,
     << 251000000, 601800000 >>, << 250700000, 601750000 >>,
     << 250500000, 601750000 >>, << 250300000, 601720000 >>,
     << 250200000, 601700000 >>, << 250000000, 601680000 >>,
     << 249800000, 601650000 >>, << 249600000, 601620000 >>,
     << 249400000, 601580000 >>, << 249200000, 601550000 >>,
     << 249000000, 601530000 >>, << 248800000, 601520000 >>,
     << 248700000, 601550000 >>, << 248600000, 601580000 >>,
     << 248500000, 601620000 >>, << 248400000, 601680000 >>,
     << 248300000, 601750000 >>, << 248200000, 601820000 >>,
     << 248100000, 601900000 >>, << 248000000, 602000000 >>,
     << 247828000, 602000000 >>, << 247828000, 601000000 >> >>

MainlandFeature ==
  [ type |-> "Feature",
    properties |-> [ id |-> "mainland", name |-> "Helsinki Mainland" ],
    geometry |-> [ type |-> "Polygon", coordinates |-> << MAINLAND_POLYGON >> ] ]

IslandFeatureMainlandGeometry(f, idx) ==
  [ type |-> f.type,
    properties |-> [ id |-> << "island-", idx >>,
                     name |-> << "Island ", idx >>,
                     area |-> f.properties.area ],
    geometry |-> MainlandFeature.geometry ]

IslandFeature(f, idx) ==
  [ type |-> f.type,
    properties |-> [ id |-> << "island-", idx >>,
                     name |-> << "Island ", idx >>,
                     area |-> f.properties.area ],
    geometry |-> f.geometry ]

Combine ==
  /\ pc = "combine"
  /\ LET islandsData == landFile
     IN  combinedFeatures' =
           << MainlandFeature >> \o
           [ j \in 1..Len(islandsData.features) |->
               IslandFeature(islandsData.features[j], j - 1) ]
  /\ console' = console \o
        << ConsoleLog("Created combined land polygon with features",
                      << Len(combinedFeatures') >>),
           ConsoleLog("- 1 mainland polygon", << >>),
           ConsoleLog("- island polygons", << Len(landFile.features) >>),
           ConsoleLog("Saved to:", << >>) >>
  /\ pc' = "done"
  /\ UNCHANGED << input, fetchVars, filterVars, mergeVars, significantRings, sortedByArea,
                  mainLandFeatures, landFile >>

---------------------------------------------------------------------------
(* Every input of Spec has fewer than maxIterations segments, so the loop  *)
(* test never fails there (CapNotReached).  SpecCap has an input that      *)
(* reaches the cap; it takes each loop to its end in one step and adds the *)
(* exit of the while loop at the cap.                                       *)
Next ==
  \/ IndexSegment
  \/ IndexDone
  \/ SkipSegment
  \/ AcceptClosed
  \/ StartRing
  \/ CloseRing
  \/ ExtendForward
  \/ ExtendReverse
  \/ NoContinuation
  \/ MergeReturn
  \/ FilterRings
  \/ SortRings
  \/ WriteLand
  \/ Combine

Spec == Init /\ [][Next]_vars

NextCap ==
  \/ IndexAll
  \/ SkipAll
  \/ AcceptClosed
  \/ StartRing
  \/ ExtendAll
  \/ LoopExit
  \/ MergeReturn
  \/ FilterRings
  \/ SortRings
  \/ WriteLand
  \/ Combine

SpecCap == InitCap /\ [][NextCap]_vars

CapNotReached == pc = "extend" => iterations < maxIterations

(* The bodies used by the steps of SpecCap compute what the steps of Spec  *)
(* do, pass by pass.                                                        *)
BodiesAgree ==
  [][ /\ pc = "extend" => LoopState' = WhileBody(LoopState)
      /\ (pc = "index" /\ k <= SegmentsLength) =>
            [ k |-> k', startIndex |-> startIndex', endIndex |-> endIndex' ]
              = ForEachBody([ k |-> k, startIndex |-> startIndex,
                              endIndex |-> endIndex ]) ]_vars

---------------------------------------------------------------------------
(* Properties of mergeSegments.                                             *)

UnitSquare == << O, E, N, W, O >>

One == BigMul(Unit, Unit)

Range(q) == { q[j] : j \in 1..Len(q) }

MergeReturned == pc \notin { "index", "seed", "extend" }

InputIs(segs) ==
  /\ SegmentsLength = Len(segs)
  /\ \A p \in 1..Len(segs) : segments(p) = segs[p]

(* C1: every ring returned by mergeSegments has its first coordinate equal *)
(* to its last coordinate.                                                  *)
C1_RingsClosedExactly ==
  \A j \in 1..Len(rings) : rings[j][1] = rings[j][Len(rings[j])]

(* C2: every ring returned by mergeSegments has at least 4 points, also a  *)
(* ring accepted directly from one segment whose end keys are equal.       *)
C2_RingsHaveFourPoints ==
  \A j \in 1..Len(rings) : Len(rings[j]) >= 4

(* the unconsumed segments of two or more coordinates that start, or end,  *)
(* at the trailing key of the ring under construction                      *)
ForwardMatches ==
  { p \in 1..SegmentsLength :
      /\ p \notin used
      /\ Len(segments(p)) >= 2
      /\ coordKey(segments(p)[1]) = coordKey(ring[Len(ring)]) }

ReverseMatches ==
  { p \in 1..SegmentsLength :
      /\ p \notin used
      /\ Len(segments(p)) >= 2
      /\ coordKey(segments(p)[Len(segments(p))]) = coordKey(ring[Len(ring)]) }

(* the lookup of lines 161-187 runs: the loop test passed and the ring was *)
(* not found closed at the top of the pass                                  *)
LookupRuns == LoopRuns /\ ~ RingClosed

ReversedWithoutLast(seg) == [ j \in 1..(Len(seg) - 1) |-> seg[Len(seg) - j] ]

IndexedPositions(index) == UNION { Range(index[key]) : key \in DOMAIN index }

ShortSegments == { p \in 1..SegmentsLength : Len(segments(p)) < 2 }

(* C5: a segment with fewer than 2 coordinates is never entered in the     *)
(* start or end index, is never a seed or a continuation of a chain, and   *)
(* no returned ring holds a coordinate that does not come from the         *)
(* segments of its chain; an input of such segments only yields no ring.   *)
C5_ShortSegmentsIgnored ==
  /\ \A p \in ShortSegments :
        /\ p \notin IndexedPositions(startIndex)
        /\ p \notin IndexedPositions(endIndex)
        /\ p \notin used
        /\ p \notin Range(chain)
        /\ \A j \in 1..Len(ringChains) : p \notin Range(ringChains[j])
  /\ Len(ringChains) = Len(rings)
  /\ \A j \in 1..Len(rings) :
        Range(rings[j]) \subseteq
          UNION { Range(segments(c)) : c \in Range(ringChains[j]) }
  /\ ShortSegments = 1..SegmentsLength => rings = << >>

C5_Witness ==
  /\ MergeReturned
  /\ ShortSegments # {}
  /\ rings # << >>
  /\ \E p \in ShortSegments : \E j \in 1..Len(rings) :
        /\ Len(segments(p)) = 1
        /\ \E q \in 1..Len(rings[j]) :
              coordKey(segments(p)[1]) = coordKey(rings[j][q])

---------------------------------------------------------------------------
(* Properties of processCoastlineData and of the output merge.              *)

FeatureRing(f) == f.geometry.coordinates[1]

Written == landFile.type = "FeatureCollection"

WrittenArea(j) == calculateRingArea(FeatureRing(landFile.features[j]))

SignificantCount ==
  Cardinality({ j \in 1..Len(rings) : BigLess(MinArea, calculateRingArea(rings[j])) })

(* C6 as stated: the written land-mass set holds min(50, number of         *)
(* significant rings) rings, each with area strictly greater than the      *)
(* next.                                                                    *)
C6_StrictlyDescending ==
  Written =>
    /\ Len(landFile.features) = Min(TopK, SignificantCount)
    /\ \A j \in 1..(Len(landFile.features) - 1) :
          BigLess(WrittenArea(j + 1), WrittenArea(j))

(* C6 amended: the written land-mass set holds min(50, number of           *)
(* significant rings) rings, and no ring has a smaller area than the next. *)
C6_TopKDescending ==
  Written =>
    /\ Len(landFile.features) = Min(TopK, SignificantCount)
    /\ \A j \in 1..(Len(landFile.features) - 1) :
          ~ BigLess(WrittenArea(j), WrittenArea(j + 1))

C6_Witness ==
  /\ Written
  /\ SignificantCount > TopK
  /\ Len(landFile.features) = TopK
  /\ \E j \in 1..(TopK - 1) : WrittenArea(j) = WrittenArea(j + 1)
  /\ \E j \in 1..(TopK - 1) : BigLess(WrittenArea(j + 1), WrittenArea(j))

(* C7: no ring whose area is below 0.0001 is in the written output, be it  *)
(* closed and whatever its rank.                                            *)
C7_NoInsignificantRingWritten ==
  /\ Written =>
       \A j \in 1..Len(landFile.features) : ~ BigLess(WrittenArea(j), MinArea)
  /\ \A j \in 2..Len(combinedFeatures) :
       ~ BigLess(calculateRingArea(FeatureRing(combinedFeatures[j])), MinArea)

C7_Witness ==
  /\ pc = "done"
  /\ Len(landFile.features) < TopK
  /\ \E j \in 1..Len(rings) :
        /\ rings[j][1] = rings[j][Len(rings[j])]
        /\ Len(rings[j]) >= 4
        /\ BigLess(BigZero, calculateRingArea(rings[j]))
        /\ BigLess(calculateRingArea(rings[j]), MinArea)

Cross(p, q) == BigSub(BigMul(p[1], q[2]), BigMul(q[1], p[2]))

(* the sum of the cross products of consecutive points, last pair first *)
SignedSum(r) ==
  LET sum[j \in Nat, acc \in Seq(Int)] ==
        IF j = 0 THEN acc ELSE sum[j - 1, BigAdd(Cross(r[j], r[j + 1]), acc)]
  IN  sum[Len(r) - 1, BigZero]

Magnitude(p) == IF BigLess(p, BigZero) THEN BigSub(BigZero, p) ELSE p

(* C9: the area of a ring is half the absolute value of the sum of         *)
(* x_i*y_(i+1) - x_(i+1)*y_i over its consecutive points, it is never      *)
(* negative, and it is 1 for the unit square ring.  Stated of the rings    *)
(* the filter is about to measure, and of the unit square.                 *)
C9_ShoelaceArea ==
  pc = "filter" =>
    /\ \A r \in Range(rings) \cup { UnitSquare } :
          /\ BigAdd(calculateRingArea(r), calculateRingArea(r)) = Magnitude(SignedSum(r))
          /\ ~ BigLess(calculateRingArea(r), BigZero)
    /\ calculateRingArea(UnitSquare) = One

C9_Witness ==
  /\ pc = "filter"
  /\ << O, W, N, E, O >> \in Range(rings)
  /\ BigLess(SignedSum(<< O, W, N, E, O >>), BigZero)
  /\ calculateRingArea(<< O, W, N, E, O >>) = One

(* C10: the output merge yields the hand-authored mainland polygon, once,  *)
(* followed by every polygon of the written land-mass set with its ring    *)
(* unchanged and in the same order: N + 1 features for N rings.            *)
C10_OutputMerge ==
  pc = "done" =>
    /\ Len(combinedFeatures) = Len(mainLandFeatures) + 1
    /\ combinedFeatures[1].geometry.coordinates = << MAINLAND_POLYGON >>
    /\ Cardinality({ j \in 1..Len(combinedFeatures) :
                       combinedFeatures[j].properties.id = "mainland" }) = 1
    /\ \A j \in 1..Len(mainLandFeatures) :
          /\ combinedFeatures[j + 1].geometry.type = "Polygon"
          /\ combinedFeatures[j + 1].geometry.coordinates = << mainLandFeatures[j] >>

C10_Witness ==
  /\ pc = "done"
  /\ Len(mainLandFeatures) >= 2
  /\ mainLandFeatures[1] # mainLandFeatures[2]

---------------------------------------------------------------------------
(* Console output and the remaining properties of the ring builder.         *)

(* C11: when no ring is significant, processCoastlineData still writes an  *)
(* output collection, an empty one, and a warning about the empty result   *)
(* is on the console.                                                       *)
C11_EmptyResultWarned ==
  (pc \in { "combine", "done" } /\ significantRings = << >>) =>
    /\ Written
    /\ landFile.features = << >>
    /\ \E j \in 1..Len(console) : console[j].level = "warn"

(* the ring under construction has equal leading and trailing keys and at  *)
(* least 4 points                                                           *)
KeysMeet ==
  /\ Len(ring) >= 4
  /\ coordKey(ring[1]) = coordKey(ring[Len(ring)])

Continuations == ForwardMatches \cup ReverseMatches

(* C12 as stated: a ring under construction is emitted as closed only at a *)
(* step where no unconsumed segment continues from its trailing            *)
(* coordinate, and as long as a continuation exists the ring is extended.  *)
C12_ClosedOnlyWithoutContinuation ==
  [][ /\ (pc = "extend" /\ rings' = Append(rings, ring)) => Continuations = {}
      /\ (LoopRuns /\ Continuations # {}) => Len(ring') > Len(ring) ]_vars

(* C12 amended: a ring under construction whose leading and trailing keys  *)
(* are equal and that has at least 4 points is emitted as it is at the     *)
(* next pass of the loop, whether or not an unconsumed segment continues   *)
(* from its trailing coordinate, and nothing is consumed at that pass; a   *)
(* ring is extended only while it is not closed in that sense.             *)
C12_ClosedBeforeLookup ==
  [][ /\ (LoopRuns /\ KeysMeet) =>
            /\ rings' = Append(rings, ring)
            /\ used' = used
      /\ (pc = "extend" /\ Len(ring') > Len(ring)) => ~ KeysMeet ]_vars

C12_Witness ==
  /\ InputIs(<< << O, E, N >>, << N, W, O >>, << O, E, N >> >>)
  /\ rings = << UnitSquare >>
  /\ ringChains = << << 1, 2 >> >>
  /\ used = { 1, 2 }
  /\ pc = "seed"
  /\ i = 2

CapExceeded == pc = "extend" /\ ~ (iterations < maxIterations)

(* C13: when the iteration cap is exceeded the ring under construction is  *)
(* handled as in the no-continuation case: with more than 10 points it is  *)
(* force-closed by its leading coordinate and emitted, with 10 points or   *)
(* fewer it is discarded.                                                   *)
C13_CapExitSamePolicy ==
  [][ CapExceeded =>
        IF Len(ring) > ForceCloseMin
        THEN rings' = Append(rings, Append(ring, ring[1]))
        ELSE rings' = rings ]_vars

(* the segments consumed by a chain that yielded no ring *)
Discarded ==
  { p \in used : /\ p \notin Range(chain)
                 /\ \A j \in 1..Len(ringChains) : p \notin Range(ringChains[j]) }

(* C14: at a pass where the ring is not closed and no unconsumed segment   *)
(* continues it, a ring of more than 10 points is emitted with its leading *)
(* coordinate appended, a ring of 10 points or fewer leaves the result     *)
(* list as it was; either way the chain ends there and consumes nothing    *)
(* more.                                                                    *)
C14_ForceCloseOrDiscard ==
  [][ (LookupRuns /\ Continuations = {}) =>
        /\ IF Len(ring) > 10
           THEN rings' = Append(rings, Append(ring, ring[1]))
           ELSE rings' = rings
        /\ used' = used
        /\ pc' = "seed"
        /\ i' = i + 1 ]_vars

C14_Witness ==
  /\ MergeReturned
  /\ Len(rings) = 1
  /\ Len(rings[1]) = 12
  /\ rings[1][12] = rings[1][1]
  /\ coordKey(rings[1][11]) # coordKey(rings[1][1])
  /\ Discarded # {}

Filtered == pc = "sort"

Kept(r) == r \in Range(significantRings)

(* C15 as stated: the filter drops a ring exactly when its area is below   *)
(* the threshold, so a ring whose area equals the threshold is kept and    *)
(* every kept ring has an area at or above the threshold.                  *)
C15_DropsExactlyBelow ==
  Filtered =>
    \A j \in 1..Len(rings) :
       Kept(rings[j]) <=> ~ BigLess(calculateRingArea(rings[j]), MinArea)

(* C15 amended: the filter drops a ring exactly when its area is at or     *)
(* below the threshold, so a ring whose area equals the threshold is       *)
(* dropped and every kept ring has an area strictly above the threshold.   *)
C15_DropsAtOrBelow ==
  Filtered =>
    /\ \A j \in 1..Len(rings) :
          Kept(rings[j]) <=> BigLess(MinArea, calculateRingArea(rings[j]))
    /\ \A j \in 1..Len(rings) :
          calculateRingArea(rings[j]) = MinArea => ~ Kept(rings[j])
    /\ \A j \in 1..Len(significantRings) :
          /\ calculateRingArea(significantRings[j]) # MinArea
          /\ ~ BigLess(calculateRingArea(significantRings[j]), MinArea)
    /\ Len(significantRings) = SignificantCount

C15_Witness ==
  /\ Filtered
  /\ significantRings # << >>
  /\ \E j \in 1..Len(rings) :
        /\ calculateRingArea(rings[j]) = MinArea
        /\ ~ Kept(rings[j])

(* the places where segment p stands in the chain under construction (0)  *)
(* and in the chains of the emitted rings                                   *)
Places(p) ==
  { << 0, j >> : j \in { m \in 1..Len(chain) : chain[m] = p } }
  \cup
  UNION { { << r, j >> : j \in { m \in 1..Len(ringChains[r]) : ringChains[r][m] = p } } :
            r \in 1..Len(ringChains) }

(* C16: a lookup never selects a consumed segment and a segment is         *)
(* consumed at most once: every step consumes at most one segment, one     *)
(* that was not consumed, as the seed or as the next link of the chain     *)
(* under construction; no segment stands twice in one chain or in two      *)
(* chains, and a chain that was discarded keeps its segments consumed.     *)
C16_ConsumedOnce ==
  [][ /\ used \subseteq used'
      /\ Cardinality(used' \ used) <= 1
      /\ \A c \in used' \ used :
            \/ pc = "seed" /\ c = i
            \/ pc = "extend" /\ chain' = Append(chain, c)
      /\ (pc = "extend" /\ chain' # chain /\ chain' # << >>) =>
            /\ chain'[Len(chain')] \notin used
            /\ used' = used \cup { chain'[Len(chain')] }
      /\ (\A p \in 1..SegmentsLength :
             /\ Cardinality(Places(p)) <= 1
             /\ Places(p) # {} => p \in used)' ]_vars

C16_Witness ==
  /\ InputIs(<< << O, W, N >>, << O, E, N >>, << N, W, O >> >>)
  /\ MergeReturned
  /\ ringChains = << << 1, 3 >> >>
  /\ used = { 1, 2, 3 }
  /\ MapGet(startIndex, coordKey(N)) = << 3 >>
  /\ MapGet(endIndex, coordKey(N)) = << 1, 2 >>

(* the step appends segment c to the chain under construction *)
Links(c) == pc = "extend" /\ chain' = Append(chain, c)

(* C17: at a pass that reaches the lookup, if an unconsumed segment starts *)
(* at the trailing key, the segment linked is such a segment, appended in  *)
(* stored order, also when an unconsumed segment ends at the trailing key; *)
(* a segment is linked in reversed order only when no unconsumed segment   *)
(* starts at the trailing key.                                              *)
C17_ForwardPreferred ==
  [][ /\ (LookupRuns /\ ForwardMatches # {}) =>
            \E c \in ForwardMatches :
               /\ Links(c)
               /\ ring' = ring \o Tail(segments(c))
      /\ \A c \in 1..SegmentsLength :
            (/\ Links(c)
             /\ ring' = ring \o ReversedWithoutLast(segments(c))
             /\ ring' # ring \o Tail(segments(c)))
            => ForwardMatches = {} ]_vars

C17_Witness ==
  /\ InputIs(<< << O, E, N >>, << O, W, N >>, << N, W, O >> >>)
  /\ pc = "extend"
  /\ chain = << 1, 3 >>
  /\ ring = UnitSquare
  /\ used = { 1, 3 }

Least(S) == CHOOSE x \in S : \A y \in S : x <= y

Increasing(q) == \A j \in 1..(Len(q) - 1) : q[j] < q[j + 1]

(* C18: the segment linked at a pass is, among the unconsumed segments     *)
(* matching the trailing key in the index consulted (the starts index if   *)
(* it has one, else the ends index), the one with the lowest input         *)
(* position; each index lists its segments by increasing input position.   *)
C18_FirstInIndexOrder ==
  [][ /\ \A c \in 1..SegmentsLength :
            Links(c) =>
              /\ c \in Continuations
              /\ c = (IF ForwardMatches # {} THEN Least(ForwardMatches)
                                             ELSE Least(ReverseMatches))
      /\ (/\ \A key \in DOMAIN startIndex : Increasing(startIndex[key])
          /\ \A key \in DOMAIN endIndex : Increasing(endIndex[key]))' ]_vars

C18_Witness ==
  /\ InputIs(<< << O, E, N >>, << N, W, O >>, << N, W, O >> >>)
  /\ pc = "extend"
  /\ MapGet(startIndex, coordKey(N)) = << 2, 3 >>
  /\ chain = << 1, 2 >>
  /\ ring = UnitSquare
  /\ used = { 1, 2 }

(* position i holds an unconsumed segment of two or more coordinates whose *)
(* first and last keys are equal, and the for loop is about to take it     *)
ClosedSeedNext ==
  /\ pc = "seed"
  /\ i <= SegmentsLength
  /\ i \notin used
  /\ Len(segments(i)) >= 2
  /\ coordKey(segments(i)[1]) = coordKey(segments(i)[Len(segments(i))])

(* C19: seeds are taken in input order, skipping consumed segments: a seed *)
(* is the segment at the loop position, the position never moves back and  *)
(* every earlier segment is consumed or has fewer than 2 coordinates; an   *)
(* unconsumed seed of 2 or more coordinates whose first and last keys are  *)
(* equal is emitted as a ring of exactly its own coordinates and consumed, *)
(* and the loop goes on to the next position without any lookup.           *)
C19_ClosedSeedAccepted ==
  [][ /\ i' >= i
      /\ (pc = "seed" /\ used' # used) => (i \notin used /\ used' = used \cup { i })
      /\ (pc = "seed" /\ i <= SegmentsLength /\ i \in used) =>
            (i' = i + 1 /\ used' = used /\ rings' = rings /\ pc' = "seed")
      /\ ClosedSeedNext =>
            /\ rings' = Append(rings, segments(i))
            /\ used' = used \cup { i }
            /\ i' = i + 1
            /\ pc' = "seed"
            /\ ring' = ring
      /\ (pc \in { "seed", "extend" } =>
            \A p \in 1..(i - 1) : p \in used \/ Len(segments(p)) < 2)' ]_vars

C19_Witness ==
  /\ InputIs(<< << N, W, O, N >>, << N, W, O >> >>)
  /\ pc = "seed"
  /\ i = 2
  /\ rings = << << N, W, O, N >> >>
  /\ used = { 1 }
  /\ iterations = 0

FeatureRings(features) == { FeatureRing(features[j]) : j \in 1..Len(features) }

(* C20: a ring added to the result list of mergeSegments keeps its         *)
(* coordinate sequence for the rest of the run: the list only grows at its *)
(* end, and every ring of the filtered, sorted, truncated, written and     *)
(* merged collections is a ring of the result list as it was emitted; the  *)
(* input segments are never changed.                                        *)
C20_EmittedRingsFrozen ==
  [][ /\ input' = input
      /\ Len(rings') >= Len(rings)
      /\ \A j \in 1..Len(rings) : rings'[j] = rings[j]
      /\ (/\ Range(significantRings) \subseteq Range(rings)
          /\ Range(sortedByArea) \subseteq Range(significantRings)
          /\ Range(mainLandFeatures) \subseteq Range(sortedByArea)
          /\ FeatureRings(landFile.features) \subseteq Range(mainLandFeatures)
          /\ FeatureRings(SubSeq(combinedFeatures, 2, Len(combinedFeatures)))
               \subseteq Range(mainLandFeatures))'
    ]_vars

C20_Witness ==
  /\ pc = "done"
  /\ InputIs(<< << O, E, N, O1 >>, << O, E, N >>, << N, W, O >> >>)
  /\ rings = << << O, E, N, O1 >>, UnitSquare >>
  /\ ringChains = << << 1 >>, << 2, 3 >> >>
  /\ sortedByArea = << UnitSquare, << O, E, N, O1 >> >>
  /\ FeatureRing(landFile.features[2]) = << O, E, N, O1 >>
  /\ FeatureRing(combinedFeatures[3]) = << O, E, N, O1 >>

(* the segments of 2 or more coordinates whose own end keys are equal *)
ClosedSegments ==
  { p \in 1..SegmentsLength :
      /\ Len(segments(p)) >= 2
      /\ coordKey(segments(p)[1]) = coordKey(segments(p)[Len(segments(p))]) }

(* C21: a segment whose own first and last keys are equal is never linked  *)
(* to a chain seeded by another segment, and when mergeSegments returns it *)
(* is a ring of its own.                                                    *)
C21_ClosedSegmentOwnRing ==
  [][ /\ \A c \in ClosedSegments : ~ Links(c)
      /\ (MergeReturned =>
            \A c \in ClosedSegments :
               \E j \in 1..Len(rings) :
                  ringChains[j] = << c >> /\ rings[j] = segments(c))' ]_vars

(* How far mergeSegments has come: the loop it is in, the position of the *)
(* forEach, the position of the for loop and whether its while loop runs,  *)
(* and the count of the while loop.                                         *)
Progress ==
  << IF pc = "index" THEN 0 ELSE IF pc \in { "seed", "extend" } THEN 1 ELSE 2,
     k,
     2 * i + (IF pc = "extend" THEN 1 ELSE 0),
     iterations >>

Before(m, n) ==
  \E j \in 1..3 :
     /\ \A l \in 1..(j - 1) : m[l] = n[l]
     /\ m[j] < n[j]

LaterOrCounted(m, n) == Before(m, n) \/ (SubSeq(m, 1, 3) = SubSeq(n, 1, 3) /\ m[4] < n[4])

(* C22: mergeSegments terminates: every step before its return takes it   *)
(* further and none of the positions it advances exceeds its bound.  Every *)
(* pass of the extension loop either consumes one segment that was not     *)
(* consumed or ends the loop; the passes spent on one ring number at most  *)
(* min(number of segments + 1, 10000), and once 10000 passes are spent the *)
(* loop ends without consuming or emitting anything more.                  *)
C22_IterationsBounded ==
  [][ /\ ~ MergeReturned => LaterOrCounted(Progress, Progress')
      /\ (pc = "extend") =>
            (/\ used \subseteq used'
             /\ iterations' - iterations =
                  Cardinality(used' \ used) + (IF pc' = "seed" THEN 1 ELSE 0))
      /\ (pc = "extend" /\ iterations >= 10000) =>
            (used' = used /\ rings' = rings /\ pc' = "seed")
      /\ (/\ k <= SegmentsLength + 1
          /\ i <= SegmentsLength + 1
          /\ iterations <= 10001
          /\ (pc = "extend") =>
                (/\ iterations = Len(chain) - 1
                 /\ iterations <= Min(SegmentsLength + 1, 10000)))' ]_vars

C22_Witness ==
  /\ MergeReturned
  /\ SegmentsLength > 10000
  /\ iterations = 10001
  /\ Cardinality(used) = 10001
  /\ rings = << >>

(* the step ends the chain under construction without emitting a ring *)
ChainDropped == pc = "extend" /\ pc' = "seed" /\ rings' = rings

(* C23: a consumed segment is never free again.  A chain that ends without *)
(* a ring, for want of points or at the iteration cap, leaves all its      *)
(* segments consumed, and a segment of such a chain is never the seed or a *)
(* link of a later chain nor a ring accepted directly.                     *)
C23_ConsumedStaysConsumed ==
  [][ /\ used \subseteq used'
      /\ Discarded \subseteq Discarded'
      /\ ChainDropped => (Range(chain) \cup (used' \ used)) \subseteq Discarded'
      /\ (CapExceeded /\ pc' = "seed") => (Range(chain) \subseteq Discarded' /\ used' = used)
      /\ (pc = "seed" /\ used' # used) => (used' \ used = { i } /\ i \notin Discarded) ]_vars

(* a two-point chain is dropped; the ten-point chain seeded next ends at   *)
(* the dropped segment's start, cannot take it and is dropped as well      *)
C23_Witness ==
  /\ InputIs(<< SegPool[8], L10 >>)
  /\ MergeReturned
  /\ rings = << >>
  /\ Discarded = { 1, 2 }

(* C24: when mergeSegments returns, the consumed segments are exactly the *)
(* segments of 2 coordinates or more; while the for loop runs, every such  *)
(* segment before its position is consumed already.                         *)
C24_AllLongSegmentsConsumed ==
  /\ used \cap ShortSegments = {}
  /\ (pc \in { "seed", "extend" }) =>
        \A p \in 1..(i - 1) : p \in ShortSegments \/ p \in used
  /\ MergeReturned => used = (1..SegmentsLength) \ ShortSegments

C24_Witness ==
  /\ InputIs(<< << O >>, << O, E, N >>, << >> >>)
  /\ MergeReturned
  /\ rings = << >>
  /\ used = { 2 }

---------------------------------------------------------------------------
(* fetch-travel-times.ts.  A hex id is a number; allHexIds, the result of  *)
(* polygonToCells, holds no id twice.  TravelTimeResult objects are        *)
(* functions from hex ids to minutes.                                       *)

MaxHex == 3
MaxTotal == 3
LongRun == 52
SaveEvery == 50

HexList(n) == [ h \in 1..n |-> h ]

(* the value of --part: absent, or the two numbers around the slash; 0     *)
(* stands for every text Number() does not turn into a positive number     *)
PartArgs ==
  { Null } \cup { Some([ part |-> p, total |-> t ]) : p \in 0..MaxTotal, t \in 0..MaxTotal }

Entries(S, minutes) == [ h \in S |-> minutes ]

OutputFiles(S) == { Null } \cup { Some(Entries(T, 7)) : T \in SUBSET S }

ProgressFiles(S, indexes) ==
  { Null } \cup
  { Some([ results |-> Entries(T, 9), lastIndex |-> l ]) : T \in SUBSET S, l \in indexes }

FetchRuns ==
  { [ argv |-> a, allHexIds |-> HexList(n), outputFile |-> o, progressFile |-> f ] :
      a \in PartArgs, n \in 0..MaxHex,
      o \in OutputFiles(1..MaxHex), f \in ProgressFiles(1..MaxHex, -1..1) }
  \cup
  { [ argv |-> a, allHexIds |-> HexList(LongRun), outputFile |-> o, progressFile |-> Null ] :
      a \in { Null, Some([ part |-> 1, total |-> 1 ]) },
      o \in { Some(Entries(1..(SaveEvery - 1), 7)), Some(Entries(1..SaveEvery, 7)) } }
  \cup
  { [ argv |-> Null, allHexIds |-> HexList(LongRun), outputFile |-> Null,
      progressFile |-> Some([ results |-> Entries(1..2, 9), lastIndex |-> SaveEvery - 2 ]) ] }

(* what fetchTravelTime resolves to, lines 78-132: null, or minutes *)
fetchTravelTime == { Null, Some(0), Some(25) }

(* lines 66-70: the test that ends the process *)
InvalidPart(cfg) == cfg.part = 0 \/ cfg.total = 0 \/ cfg.part < 1 \/ cfg.part > cfg.total

chunkSizeFloor(length, total) == length \div total

(* line 150: Math.ceil(allHexIds.length / total) *)
chunkSize(length, total) == (length + total - 1) \div total

(* lines 150-153 *)
PartOf(all, part, total) ==
  LET startIdx == (part - 1) * chunkSize(Len(all), total)
      endIdx == Min(part * chunkSize(Len(all), total), Len(all))
  IN  Slice(all, startIdx, endIdx)

(* lines 143-158, with parsePartArg, lines 60-72 *)
SelectHexes ==
  /\ fetchPc = "main"
  /\ IF argv # Null /\ InvalidPart(argv[1])
     THEN /\ fetchPc' = "exit"
          /\ UNCHANGED << partConfig, hexIds >>
     ELSE /\ partConfig' = argv
          /\ hexIds' = IF argv # Null
                       THEN PartOf(allHexIds, argv[1].part, argv[1].total)
                       ELSE allHexIds
          /\ fetchPc' = "loadOutput"
  /\ UNCHANGED << argv, allHexIds, outputFile, progressFile, results,
                  fetchStartIndex, fetchI, travelTime, fetched, successCount,
                  skippedCount, errorCount >>
  /\ UNCHANGED << input, pc, mergeVars, tailVars, filterVars >>

(* lines 160-166 *)
LoadOutput ==
  /\ fetchPc = "loadOutput"
  /\ results' = IF outputFile # Null THEN outputFile[1] ELSE << >>
  /\ fetchPc' = "loadProgress"
  /\ UNCHANGED << argv, allHexIds, outputFile, progressFile, partConfig, hexIds,
                  fetchStartIndex, fetchI, travelTime, fetched, successCount,
                  skippedCount, errorCount >>
  /\ UNCHANGED << input, pc, mergeVars, tailVars, filterVars >>

(* { ...a, ...b } *)
Spread(a, b) ==
  [ h \in (DOMAIN a) \cup (DOMAIN b) |-> IF h \in DOMAIN b THEN b[h] ELSE a[h] ]

(* lines 168-190: the progress file of this part, and the start of the loop *)
LoadProgress ==
  /\ fetchPc = "loadProgress"
  /\ IF progressFile # Null
     THEN /\ results' = Spread(results, progressFile[1].results)
          /\ fetchStartIndex' = progressFile[1].lastIndex + 1
     ELSE UNCHANGED << results, fetchStartIndex >>
  /\ fetchI' = fetchStartIndex'
  /\ fetchPc' = "loop"
  /\ UNCHANGED << argv, allHexIds, outputFile, progressFile, partConfig, hexIds,
                  travelTime, fetched, successCount, skippedCount, errorCount >>
  /\ UNCHANGED << input, pc, mergeVars, tailVars, filterVars >>

hexId == hexIds[fetchI + 1]

HasEntryNever(res, h) == FALSE

(* line 194: results[hexId] !== undefined *)
HasEntry(res, h) == h \in DOMAIN res

(* lines 190-197: a pass that continues *)
SkipHex ==
  /\ fetchPc = "loop"
  /\ fetchI < Len(hexIds)
  /\ HasEntry(results, hexId)
  /\ skippedCount' = skippedCount + 1
  /\ fetchI' = fetchI + 1
  /\ UNCHANGED << argv, allHexIds, outputFile, progressFile, partConfig, hexIds,
                  results, fetchStartIndex, travelTime, fetched, successCount,
                  errorCount, fetchPc >>
  /\ UNCHANGED << input, pc, mergeVars, tailVars, filterVars >>

(* lines 190-227: a pass that calls fetchTravelTime *)
FetchHex ==
  /\ fetchPc = "loop"
  /\ fetchI < Len(hexIds)
  /\ ~ HasEntry(results, hexId)
  /\ fetched' = Append(fetched, hexId)
  /\ \E minutes \in fetchTravelTime :
        /\ travelTime' = minutes
        /\ IF minutes # Null
           THEN /\ results' = Spread(results, Entries({ hexId }, minutes[1]))
                /\ successCount' = successCount + 1
                /\ UNCHANGED errorCount
           ELSE /\ errorCount' = errorCount + 1
                /\ UNCHANGED << results, successCount >>
  /\ IF (fetchI + 1) % SaveEvery = 0
     THEN /\ progressFile' = Some([ results |-> results', lastIndex |-> fetchI ])
          /\ outputFile' = Some(results')
     ELSE UNCHANGED << progressFile, outputFile >>
  /\ fetchI' = fetchI + 1
  /\ UNCHANGED << argv, allHexIds, partConfig, hexIds, fetchStartIndex,
                  skippedCount, fetchPc >>
  /\ UNCHANGED << input, pc, mergeVars, tailVars, filterVars >>

(* lines 229-240 *)
SaveResults ==
  /\ fetchPc = "loop"
  /\ ~ (fetchI < Len(hexIds))
  /\ outputFile' = Some(results)
  /\ progressFile' = Null
  /\ fetchPc' = "done"
  /\ UNCHANGED << argv, allHexIds, partConfig, hexIds, results, fetchStartIndex,
                  fetchI, travelTime, fetched, successCount, skippedCount,
                  errorCount >>
  /\ UNCHANGED << input, pc, mergeVars, tailVars, filterVars >>

NoSegments == [ kind |-> "pool", ids |-> << >>, n |-> 0, pat |-> "none" ]

InitFetch ==
  /\ input = NoSegments
  /\ InitState
  /\ FilterMounted(Null)
  /\ \E run \in FetchRuns : FetchStart(run)

NextFetch ==
  \/ SelectHexes
  \/ LoadOutput
  \/ LoadProgress
  \/ SkipHex
  \/ FetchHex
  \/ SaveResults

SpecFetch == InitFetch /\ [][NextFetch]_vars

(* the pass of the loop this step takes calls fetchTravelTime *)
Fetches == fetchPc = "loop" /\ fetched' # fetched

(* C25: in the fetch loop fetchTravelTime is called only for a hex that    *)
(* has no entry in results, whether the entry was loaded from the output   *)
(* file, merged from the progress file or stored earlier in the run; an    *)
(* entry that exists keeps its value; a fetch that resolves to null adds   *)
(* no entry, and any other adds the entry of the fetched hex only.         *)
C25_FetchOnlyMissing ==
  [][ /\ (fetched' # fetched) => Fetches
      /\ Fetches =>
            /\ fetched' = Append(fetched, hexId)
            /\ hexId \notin DOMAIN results
            /\ IF travelTime' = Null
               THEN results' = results
               ELSE /\ DOMAIN results' = (DOMAIN results) \cup { hexId }
                    /\ results'[hexId] = travelTime'[1]
      /\ (fetchPc = "loop" /\ fetchI < Len(hexIds) /\ hexId \in DOMAIN results) =>
            (fetched' = fetched /\ results' = results)
      /\ (fetchPc = "loop") =>
            \A h \in DOMAIN results : h \in DOMAIN results' /\ results'[h] = results[h] ]_vars

C25_Witness ==
  /\ fetchPc = "done"
  /\ allHexIds = HexList(3)
  /\ partConfig = Null
  /\ skippedCount = 1
  /\ errorCount = 1
  /\ successCount = 1
  /\ fetched = << 2, 3 >>
  /\ results = outputFile[1]
  /\ DOMAIN results = { 1, 3 }
  /\ results[1] = 7
  /\ results[3] = 25

(* the zero-based indexes of allHexIds that --part part/total selects *)
PartIndexes(length, part, total) ==
  { j \in 0..(length - 1) :
      /\ (part - 1) * chunkSize(length, total) <= j
      /\ j < Min(part * chunkSize(length, total), length) }

(* the parts 1/total to upto/total, one after the other *)
RECURSIVE JoinParts(_, _, _)
JoinParts(all, total, upto) ==
  IF upto = 0 THEN << >>
  ELSE JoinParts(all, total, upto - 1) \o PartOf(all, upto, total)

(* the totals the parts are checked for: some exceed the length of a list *)
PartTotals == 1..(MaxHex + 2)

(* C26: for the hex list at hand and every total >= 1, the index ranges of *)
(* --part 1/total to total/total are pairwise disjoint and cover every     *)
(* index; each part is the hexes at its indexes, and the parts put one     *)
(* after the other are the hex list itself; the part main selects is the   *)
(* one computed so.                                                         *)
C26_PartsPartition ==
  /\ \A total \in PartTotals :
        /\ \A p1, p2 \in 1..total :
              p1 # p2 => PartIndexes(Len(allHexIds), p1, total)
                           \cap PartIndexes(Len(allHexIds), p2, total) = {}
        /\ UNION { PartIndexes(Len(allHexIds), part, total) : part \in 1..total }
             = 0..(Len(allHexIds) - 1)
        /\ \A part \in 1..total :
              /\ Len(PartOf(allHexIds, part, total))
                   = Cardinality(PartIndexes(Len(allHexIds), part, total))
              /\ \A j \in PartIndexes(Len(allHexIds), part, total) :
                    PartOf(allHexIds, part, total)
                      [j + 1 - (part - 1) * chunkSize(Len(allHexIds), total)]
                        = allHexIds[j + 1]
        /\ JoinParts(allHexIds, total, total) = allHexIds
  /\ (fetchPc \notin { "main", "exit" } /\ partConfig # Null) =>
        hexIds = PartOf(allHexIds, partConfig[1].part, partConfig[1].total)

C26_Witness ==
  /\ fetchPc = "loadOutput"
  /\ allHexIds = HexList(3)
  /\ partConfig = Some([ part |-> 2, total |-> 2 ])
  /\ hexIds = << 3 >>

---------------------------------------------------------------------------
(* TravelTimeFilter.tsx.  A TravelTimeRange | null is Null or Some(range), *)
(* and so is the max of a range.  The pointer is at a whole number of      *)
(* pixels from the left edge of the track, which is TRACK_WIDTH wide.      *)

SLIDER_MIN == 0
SLIDER_MAX == 90
TRACK_WIDTH == 240

Max(a, b) == IF a > b THEN a ELSE b

(* lines 22-28 *)
rangeToSlider(v) ==
  IF v = Null THEN [ min |-> SLIDER_MIN, max |-> SLIDER_MAX ]
  ELSE [ min |-> v[1].min,
         max |-> IF v[1].max = Null THEN SLIDER_MAX ELSE v[1].max[1] ]

(* lines 30-36 *)
sliderToRange(min, max) ==
  IF min <= SLIDER_MIN /\ max >= SLIDER_MAX THEN Null
  ELSE Some([ min |-> min, max |-> IF max >= SLIDER_MAX THEN Null ELSE Some(max) ])

(* lines 50-54, x being clientX - trackRect.left: the fraction of the      *)
(* track times 90, kept within 0..90 and rounded, a half upwards            *)
clientXToValue(x) ==
  IF x * SLIDER_MAX <= SLIDER_MIN * TRACK_WIDTH THEN SLIDER_MIN
  ELSE IF x * SLIDER_MAX >= SLIDER_MAX * TRACK_WIDTH THEN SLIDER_MAX
  ELSE (2 * x * SLIDER_MAX + TRACK_WIDTH) \div (2 * TRACK_WIDTH)

(* line 57 *)
slider == rangeToSlider(value)

(* the positions of the handles the filter can be mounted with *)
Stops == { 0, 1, 30, 60, 90 }

StartValues ==
  { Null } \cup
  UNION { { Some([ min |-> a, max |-> m ]) :
              m \in { Null } \cup { Some(b) : b \in { c \in Stops : c >= a } } } :
            a \in Stops }

(* where the pointer is when it moves *)
PointerXs == { -20, 0, 1, 2, 80, 81, 160, 239, 240, 300 }

(* lines 191-194 and 218-221: onMouseDown of a handle *)
MouseDown(handle) ==
  /\ dragging' = handle
  /\ UNCHANGED << value, listener, val, reported >>
  /\ UNCHANGED << input, pc, mergeVars, tailVars, fetchVars >>

(* the handlers of the last render, lines 61-88 *)
Rendered ==
  IF dragging = "null" THEN Null
  ELSE Some([ dragging |-> dragging, min |-> slider.min, max |-> slider.max ])

(* lines 90-98: the effect replaces the handlers registered on window *)
Effect ==
  /\ listener # Rendered
  /\ listener' = Rendered
  /\ UNCHANGED << value, dragging, val, reported >>
  /\ UNCHANGED << input, pc, mergeVars, tailVars, fetchVars >>

newMinUnclamped(v, sliderMax) == v

(* line 69 *)
newMin(v, sliderMax) == Min(v, sliderMax)

(* line 72 *)
newMax(v, sliderMin) == Max(v, sliderMin)

(* lines 79-84 and 61-77: a mousemove on window runs the registered        *)
(* handleMouseMove; onChange is Map's setTravelTimeFilter                   *)
MouseMove(x) ==
  /\ listener # Null
  /\ val' = clientXToValue(x)
  /\ LET registered == listener[1]
         range == IF registered.dragging = "min"
                  THEN sliderToRange(newMin(val', registered.max), registered.max)
                  ELSE sliderToRange(registered.min, newMax(val', registered.min))
     IN  /\ reported' = Some(range)
         /\ value' = range
  /\ UNCHANGED << dragging, listener >>
  /\ UNCHANGED << input, pc, mergeVars, tailVars, fetchVars >>

(* lines 86-88: a mouseup on window runs the registered handleMouseUp *)
MouseUp ==
  /\ listener # Null
  /\ dragging' = "null"
  /\ UNCHANGED << value, listener, val, reported >>
  /\ UNCHANGED << input, pc, mergeVars, tailVars, fetchVars >>

InitFilter ==
  /\ input = NoSegments
  /\ InitState
  /\ FetchStart(NoRun)
  /\ \E initial \in StartValues : FilterMounted(initial)

NextFilter ==
  \/ \E handle \in { "min", "max" } : MouseDown(handle)
  \/ Effect
  \/ \E x \in PointerXs : MouseMove(x)
  \/ MouseUp

SpecFilter == InitFilter /\ [][NextFilter]_vars

(* 0 <= min <= max <= 90, null standing for 0..90 and a null max for 90 *)
InBounds(v) ==
  /\ SLIDER_MIN <= rangeToSlider(v).min
  /\ rangeToSlider(v).min <= rangeToSlider(v).max
  /\ rangeToSlider(v).max <= SLIDER_MAX

(* C27: mounted with a value within 0 <= min <= max <= 90, the filter      *)
(* passes to onChange only ranges within these bounds, whatever handles    *)
(* are dragged and wherever the pointer goes: a drag of the min handle     *)
(* leaves max as it is and puts min at or below it, a drag of the max      *)
(* handle leaves min as it is and puts max at or above it, and the range   *)
(* 0..90 is passed as null.                                                 *)
C27_RangeStaysOrdered ==
  [][ /\ (reported' # reported \/ value' # value) =>
            /\ listener # Null
            /\ reported' = Some(value')
            /\ (listener[1].dragging = "min") =>
                  /\ rangeToSlider(value').max = slider.max
                  /\ rangeToSlider(value').min <= slider.max
                  /\ rangeToSlider(value').min = Min(val', slider.max)
            /\ (listener[1].dragging = "max") =>
                  /\ rangeToSlider(value').min = slider.min
                  /\ rangeToSlider(value').max >= slider.min
                  /\ rangeToSlider(value').max = Max(val', slider.min)
      /\ (/\ InBounds(value)
          /\ (reported # Null) =>
                /\ InBounds(reported[1])
                /\ (rangeToSlider(reported[1]) = [ min |-> 0, max |-> 90 ])
                      => reported[1] = Null)' ]_vars

(* the min handle, dragged beyond a max handle at 30, stops at 30 *)
C27_Witness ==
  /\ listener # Null
  /\ listener[1].dragging = "min"
  /\ listener[1].max = 30
  /\ listener[1].min = 1
  /\ val = 60
  /\ reported = Some(Some([ min |-> 30, max |-> Some(30) ]))
  /\ value = reported[1]

====
